---------------------------- MODULE Spec2Model ----------------------------
(***************************************************************************)
(* Model of sudoku_solver: the generic number-placement puzzle (cnpp.py)   *)
(* and its hybrid solver (cnpp_solver.py).                                 *)
(*                                                                         *)
(* A puzzle is a fixed family of groups over cells. Each cell is a record  *)
(* [value, potential_values]; value is the field _value: a symbol, Python's *)
(* None, or the adapter's 0 (both falsy: no value is committed).            *)
(* Python objects are references: puzzles live in `heap` and the solver's  *)
(* local names (puzzle, _puzzle, __puzzle) hold heap indices, so aliasing  *)
(* and copy.deepcopy are distinguishable.                                  *)
(*                                                                         *)
(* Iteration over a Python set has no specified order; every operator that *)
(* iterates a set whose order can matter takes the order as a parameter,   *)
(* and the actions draw it with \E.                                        *)
(***************************************************************************)
EXTENDS Integers, Sequences, FiniteSets, TLC

\* The symbols a cell may hold (for Sudoku 1..9; here a 4-symbol puzzle).
Alphabet == 1..4

\* Cell locations.
Cells == 1..6

\* The groups of the modelled puzzle: two groups of four cells sharing two.
GroupCells == << <<1, 2, 3, 4>>, <<3, 4, 5, 6>> >>

GroupIds == DOMAIN GroupCells

Groups == [g \in GroupIds |-> { GroupCells[g][i] : i \in DOMAIN GroupCells[g] }]

\* Python's None: Cell._value of a cell built without a value, and what
\* Cell.value() returns for an unsolved cell. The Sudoku adapter builds its
\* empty cells with _value 0 instead; both are falsy, and they are not equal.
None == -1

\* bool(v) for v a symbol, None or 0.
Truthy(v) == v # None /\ v # 0

\* All orders in which a set can be iterated.
Perms(S) ==
  { f \in [1..Cardinality(S) -> S] : \A i, j \in DOMAIN f : i # j => f[i] # f[j] }

ValueOrders == Perms(Alphabet)
GroupOrders == Perms(GroupIds)

\* An iteration order of the cells of group g: its cells permuted as o
\* permutes the symbols (a group has as many cells as there are symbols).
\* process_cell_group lets one strategy change cells, and a strategy iterates
\* either cells or values, so the two orders are drawn as one permutation.
CellOrder(g, o) == [i \in DOMAIN o |-> GroupCells[g][o[i]]]

\* Sequence s restricted to the elements of S, order kept.
Restrict(s, S) == SelectSeq(s, LAMBDA x : x \in S)

---------------------------------------------------------------------------
(* cnpp.Cell *)

\* Cell.set_value: commit the value and erase the pencil markings.
set_value(cell, v) == [value |-> v, potential_values |-> {}]

\* Cell.value without the lazy commit (a variant used to test C9).
value_uncommitted(cell) == cell

\* Cell.value: the cell as it is after the read (the lazy commit of a single
\* remaining potential value); the value returned is value(cell).value.
value(cell) ==
  IF Truthy(cell.value) THEN cell
  ELSE IF Cardinality(cell.potential_values) = 1
       THEN set_value(cell, CHOOSE x \in cell.potential_values : TRUE)
       ELSE cell

\* Cell.remove_values with ^= in place of -= (a variant used to test C7).
remove_values_toggle(cell, values) ==
  [cell EXCEPT !.potential_values = (@ \ values) \cup (values \ @)]

\* Cell.remove_values: the cell afterwards.
remove_values(cell, values) ==
  [cell EXCEPT !.potential_values = @ \ values]

\* Cell.remove_values never reporting a removal (a variant used to test C10).
any_values_removed_never(cell, values) == FALSE

\* Cell.remove_values: its return value (whether anything was removed).
any_values_removed(cell, values) == cell.potential_values \cap values # {}

\* Cell.__eq__ of two cells at the given locations.
CellEq(loc1, c1, loc2, c2) ==
  /\ loc1 = loc2
  /\ c1.value = c2.value
  /\ c1.potential_values = c2.potential_values

---------------------------------------------------------------------------
(* cnpp.Group, over the cells p of one puzzle *)

\* The puzzle's cells after cell.value() was called on every cell of S.
RECURSIVE ReadValues(_, _)
ReadValues(p, S) ==
  IF S = {} THEN p
  ELSE LET c == CHOOSE x \in S : TRUE
       IN ReadValues([p EXCEPT ![c] = value(@)], S \ {c})

\* Group.solved_cells / Group.unsolved_cells (their results; both call
\* cell.value() on every cell of the group, see ReadValues).
solved_cells(p, g) == { c \in g : Truthy(value(p[c]).value) }
unsolved_cells(p, g) == { c \in g : ~ Truthy(value(p[c]).value) }

\* Group.potential_value_map: value -> unsolved cells listing it.
potential_value_map(p, g) ==
  [v \in Alphabet |-> { c \in unsolved_cells(p, g) : v \in p[c].potential_values }]

\* The keys of a value -> cells map (a defaultdict holds only touched keys).
Keys(m) == { v \in DOMAIN m : m[v] # {} }

\* A strategy's outcome: the cells afterwards and the returned changed set.
Outcome(p, changed) == [p |-> p, changed |-> changed]


\* The n-element combinations of sequence s in the order of
\* itertools.combinations (lexicographic by position), each as a set.
RECURSIVE Combinations(_, _)
Combinations(s, n) ==
  IF n = 0 THEN << {} >>
  ELSE IF Len(s) < n THEN << >>
  ELSE LET with == Combinations(Tail(s), n - 1)
       IN [i \in 1..Len(with) |-> {Head(s)} \cup with[i]]
            \o Combinations(Tail(s), n)

\* The cells p after cell.remove_values(values) on every cell of S.
RECURSIVE RemoveFrom(_, _, _)
RemoveFrom(p, S, values) ==
  IF S = {} THEN p
  ELSE LET c == CHOOSE x \in S : TRUE
       IN RemoveFrom([p EXCEPT ![c] = remove_values(@, values)], S \ {c}, values)

\* The cells p after every cell of S lost its potential values outside keep.
RECURSIVE RemoveAllBut(_, _, _)
RemoveAllBut(p, S, keep) ==
  IF S = {} THEN p
  ELSE LET c == CHOOSE x \in S : TRUE
       IN RemoveAllBut([p EXCEPT ![c] = remove_values(@, @.potential_values \ keep)],
                       S \ {c}, keep)

---------------------------------------------------------------------------
(* cnpp_solver: the five strategies *)

\* S1. clear_solved_cells(group)
clear_solved_cells(p, g) ==
  LET p1 == ReadValues(p, g)
      solved_values == { p1[c].value : c \in solved_cells(p1, g) }
      unsolved == unsolved_cells(p1, g)
  IN Outcome(RemoveFrom(p1, unsolved, solved_values),
             { c \in unsolved : any_values_removed(p1[c], solved_values) })

\* last_remaining_cell: the loop over pencil_marking_map.items(), `items`
\* being the keys still to visit.
RECURSIVE lrc_items(_, _, _, _)
lrc_items(o, pencil_marking_map, solved_values, items) ==
  IF items = << >> THEN o
  ELSE LET v == Head(items)
           cells == pencil_marking_map[v]
           next ==
             IF v \in solved_values
             THEN Outcome(RemoveFrom(o.p, cells, {v}),
                          o.changed \cup cells)
             ELSE IF Cardinality(cells) = 1
             THEN LET cell == CHOOSE c \in cells : TRUE
                  IN Outcome([o.p EXCEPT ![cell] = set_value(@, v)],
                             o.changed \cup {cell})
             ELSE o
       IN lrc_items(next, pencil_marking_map, solved_values, Tail(items))

\* S2. last_remaining_cell(group); vo is the order of the map's keys.
last_remaining_cell(p, g, vo) ==
  LET p1 == ReadValues(p, g)
      solved_values == { p1[c].value : c \in solved_cells(p1, g) }
      pencil_marking_map == potential_value_map(p1, g)
  IN lrc_items(Outcome(p1, {}), pencil_marking_map, solved_values,
               Restrict(vo, Keys(pencil_marking_map)))

\* check_conjugate: the loop over itertools.combinations(applicable_cells, number).
RECURSIVE cc_combinations(_, _, _, _)
cc_combinations(o, g, number, combos) ==
  IF combos = << >> THEN o
  ELSE LET combination == Head(combos)
           pencil_markings ==
             UNION { o.p[c].potential_values : c \in combination }
           p1 == ReadValues(o.p, g)
           others == unsolved_cells(p1, g) \ combination
           next ==
             IF Cardinality(pencil_markings) = number
             THEN Outcome(RemoveFrom(p1, others, pencil_markings),
                          o.changed \cup
                            { c \in others : any_values_removed(p1[c], pencil_markings) })
             ELSE o
       IN cc_combinations(next, g, number, Tail(combos))

\* check_conjugate(number, group); co is the iteration order of cells.
check_conjugate(number, p, g, co) ==
  LET p1 == ReadValues(p, g)
      applicable_cells ==
        { c \in unsolved_cells(p1, g) :
            Cardinality(p1[c].potential_values) <= number }
  IN cc_combinations(Outcome(p1, {}), g, number,
                     Combinations(Restrict(co, applicable_cells), number))

\* check_conjugates: the loop `for number in range(2, int(len(group) / 2) + 1)`.
RECURSIVE cc_numbers(_, _, _, _)
cc_numbers(o, g, co, number) ==
  IF number > Cardinality(g) \div 2 THEN o
  ELSE LET r == check_conjugate(number, o.p, g, co)
       IN cc_numbers(Outcome(r.p, o.changed \cup r.changed), g, co, number + 1)

\* S3. check_conjugates(group)
check_conjugates(p, g, co) == cc_numbers(Outcome(p, {}), g, co, 2)

\* check_hidden_conjugate: the loop over
\* itertools.combinations(applicable_values, number).
RECURSIVE chc_combinations(_, _, _, _)
chc_combinations(o, value_to_cell_map, number, combos) ==
  IF combos = << >> THEN o
  ELSE LET value_combination == Head(combos)
           cells_containing_value ==
             UNION { value_to_cell_map[v] : v \in value_combination }
           values_to_remove(c) == o.p[c].potential_values \ value_combination
           next ==
             IF Cardinality(cells_containing_value) = number
             THEN Outcome(RemoveAllBut(o.p, cells_containing_value, value_combination),
                          o.changed \cup
                            { c \in cells_containing_value : values_to_remove(c) # {} })
             ELSE o
       IN chc_combinations(next, value_to_cell_map, number, Tail(combos))

\* check_hidden_conjugate(number, group); vo is the iteration order of values.
check_hidden_conjugate(number, p, g, vo) ==
  LET p1 == ReadValues(p, g)
      value_to_cell_map == potential_value_map(p1, g)
      applicable_values ==
        { v \in Keys(value_to_cell_map) :
            Cardinality(value_to_cell_map[v]) <= number }
  IN chc_combinations(Outcome(p1, {}), value_to_cell_map, number,
                      Combinations(Restrict(vo, applicable_values), number))

\* check_hidden_conjugates: the loop over number.
RECURSIVE chc_numbers(_, _, _, _)
chc_numbers(o, g, vo, number) ==
  IF number > Cardinality(g) \div 2 THEN o
  ELSE LET r == check_hidden_conjugate(number, o.p, g, vo)
       IN chc_numbers(Outcome(r.p, o.changed \cup r.changed), g, vo, number + 1)

\* S4. check_hidden_conjugates(group)
check_hidden_conjugates(p, g, vo) == chc_numbers(Outcome(p, {}), g, vo, 2)

\* Puzzle.get_groups(cell): the groups holding the cell.
get_groups(c) == { h \in GroupIds : c \in Groups[h] }

\* check_intersections: the generator cells_to_prune for one value, over the
\* intersecting groups still to visit, and the pruning of its cells.
RECURSIVE ci_groups(_, _, _, _)
ci_groups(o, v, cells_containing_value, hs) ==
  IF hs = << >> THEN o
  ELSE LET h == Groups[Head(hs)]
           p1 == ReadValues(o.p, h)
           prune == unsolved_cells(p1, h) \ cells_containing_value
           next ==
             IF cells_containing_value \subseteq h
             THEN Outcome(RemoveFrom(p1, prune, {v}),
                          o.changed \cup
                            { c \in prune : any_values_removed(p1[c], {v}) })
             ELSE o
       IN ci_groups(next, v, cells_containing_value, Tail(hs))

\* check_intersections: the loop over value_to_cell_map.items().
RECURSIVE ci_values(_, _, _, _)
ci_values(o, value_to_cell_map, hs, items) ==
  IF items = << >> THEN o
  ELSE ci_values(ci_groups(o, Head(items), value_to_cell_map[Head(items)], hs),
                 value_to_cell_map, hs, Tail(items))

\* S5. check_intersections(puzzle, group); vo orders the values and go the
\* groups.
check_intersections(p, g, vo, go) ==
  LET p1 == ReadValues(p, g)
      value_to_cell_map == potential_value_map(p1, g)
      intersecting_groups ==
        { h \in GroupIds : Groups[h] \cap g # {} /\ Groups[h] # g }
  IN ci_values(Outcome(p1, {}), value_to_cell_map,
               Restrict(go, intersecting_groups),
               Restrict(vo, Keys(value_to_cell_map)))

\* process_cell_group(puzzle, group): the first strategy that reports a
\* change ends the chain.
process_cell_group(p, g, co, vo, go) ==
  LET p0 == ReadValues(p, g)
  IN IF unsolved_cells(p0, g) = {} THEN Outcome(p0, {})
     ELSE LET r1 == clear_solved_cells(p0, g)
          IN IF r1.changed # {} THEN r1
             ELSE LET r2 == last_remaining_cell(r1.p, g, vo)
                  IN IF r2.changed # {} THEN r2
                     ELSE LET r3 == check_conjugates(r2.p, g, co)
                          IN IF r3.changed # {} THEN r3
                             ELSE LET r4 == check_hidden_conjugates(r3.p, g, vo)
                                  IN IF r4.changed # {} THEN r4
                                     ELSE check_intersections(r4.p, g, vo, go)

---------------------------------------------------------------------------
(* cnpp.Puzzle *)

\* `not (cell.value() or any(cell.potential_values()))`, on the cell as read.
Conflicted(cell) == ~ Truthy(cell.value) /\ cell.potential_values = {}

\* Puzzle.state, first loop: the cells are read in the order cs until one is
\* found conflicted; the result is the cells as read and whether one was.
RECURSIVE state_cells(_, _)
state_cells(p, cs) ==
  IF cs = << >> THEN [p |-> p, conflict |-> FALSE]
  ELSE LET c == Head(cs)
           p1 == [p EXCEPT ![c] = value(@)]
       IN IF Conflicted(p1[c]) THEN [p |-> p1, conflict |-> TRUE]
          ELSE state_cells(p1, Tail(cs))

\* Puzzle.state without the comparison of a solved group's values (a variant
\* used to test C2).
HasDuplicate_never(p, g) == FALSE

\* Puzzle.state, lines 225-228: a fully solved group repeats a value.
HasDuplicate(p, g) == \E c, d \in g : c # d /\ p[c].value = p[d].value

\* Puzzle.state, second loop, over the groups in the order gs.
RECURSIVE state_groups(_, _)
state_groups(p, gs) ==
  IF gs = << >> THEN "Solved"
  ELSE LET g == Groups[Head(gs)]
       IN IF unsolved_cells(p, g) # {} THEN "Unsolved"
          ELSE IF HasDuplicate(p, g) THEN "Conflict"
          ELSE state_groups(p, Tail(gs))

\* Puzzle.state(): the state returned and the cells after its reads; gs is
\* the iteration order of the puzzle's groups and cs that of its cells.
state(p, gs, cs) ==
  LET r == state_cells(p, cs)
  IN IF r.conflict THEN [p |-> r.p, state |-> "Conflict"]
     ELSE [p |-> r.p, state |-> state_groups(r.p, gs)]

\* Puzzle.unsolved_cells(): the result (every cell is read).
puzzle_unsolved_cells(p) == { c \in Cells : ~ Truthy(value(p[c]).value) }

\* A copy that shares the object (a variant used to test C4).
deepcopy_alias(h, ref) == [heap |-> h, ref |-> ref]

\* copy.deepcopy(puzzle): a new object in the heap h holding equal cells.
deepcopy(h, ref) == [heap |-> Append(h, h[ref]), ref |-> Len(h) + 1]

---------------------------------------------------------------------------
(* cnpp_solver.solve *)

VARIABLES
  heap,                  \* the puzzle objects: each the cells of one puzzle
  puzzle,                \* solve's parameter (a heap index)
  _puzzle,               \* solve's local _puzzle (0: unbound)
  __puzzle,              \* solve's local __puzzle (0: unbound)
  group_priority_queue,  \* _solve's heapdict: group -> priority
  current_puzzle_state,  \* _solve's current_puzzle_state
  cell_with_a_guess,     \* location of the guessed cell (0: none)
  guess,                 \* the guessed value (0: none)
  iter_groups,           \* iteration order of the groups of _puzzle
  pc,                    \* position in solve
  snapshot,              \* the cells of the outermost argument before the call
  strategy,              \* strategy runs: the strategy applied last
  strategy_group,        \* strategy runs: the group it was applied to
  applications,          \* strategy runs: how often it was applied in a row
  before,                \* strategy runs: the cells before its last application
  changed_cells          \* strategy runs: its last returned changed set

vars ==
  << heap, puzzle, _puzzle, __puzzle, group_priority_queue,
     current_puzzle_state, cell_with_a_guess, guess, iter_groups, pc, snapshot,
     strategy, strategy_group, applications, before, changed_cells >>

strategy_vars == << strategy, strategy_group, applications, before, changed_cells >>

\* The decimal digits of n > 0, as a set (`int(v) for v in str(value)`).
RECURSIVE Digits(_)
Digits(n) == IF n < 10 THEN {n} ELSE {n % 10} \cup Digits(n \div 10)

\* The cell the Sudoku adapter builds from a grid entry: a falsy entry is an
\* empty cell (SudokuCell(loc, value=0): _value 0, every symbol pencilled
\* in), a single digit a committed value, several digits the pencil
\* markings (with _value None).
SudokuCell(entry) ==
  IF entry = 0 THEN [value |-> 0, potential_values |-> Alphabet]
  ELSE IF entry < 10 THEN [value |-> entry, potential_values |-> {}]
  ELSE [value |-> None, potential_values |-> Digits(entry)]

\* The input puzzles, as grids in the adapter's notation: the entries each
\* cell may hold. They include grids with a repeated value in a group, grids
\* that propagation alone solves, and grids on which it stalls.
InputEntries ==
  << {1, 12}, {1, 2, 34}, {3, 13, 0}, {4, 0}, {1, 23, 0}, {2, 0} >>

\* The number of empty cells of an input grid.
MaxEmpty == 3

\* The grids over the first n cells whose entries are drawn from `entries`.
RECURSIVE Grids(_, _)
Grids(entries, n) ==
  IF n = 0 THEN { << >> }
  ELSE { Append(grid, e) : grid \in Grids(entries, n - 1), e \in entries[n] }

\* The puzzles of the grids over `entries` with at most `empty` empty cells.
PuzzlesOf(entries, empty) ==
  { [c \in Cells |-> SudokuCell(grid[c])] :
      grid \in { gr \in Grids(entries, Len(entries)) :
                   Cardinality({ c \in Cells : gr[c] = 0 }) <= empty } }

InputPuzzles == PuzzlesOf(InputEntries, MaxEmpty)

\* The puzzles a strategy is applied to (two calls deep, so more of them).
StrategyEntries ==
  << {1, 12, 0}, {1, 2, 12, 13}, {3, 12, 13, 0}, {4, 14, 0}, {1, 23, 0}, {2, 24, 0} >>

StrategyPuzzles == PuzzlesOf(StrategyEntries, Cardinality(Cells))

\* The orders in which Puzzle.state can read the cells. Reading a cell that
\* is committed or holds several potential values changes nothing and ends
\* nothing, so the orders are those of the other cells: the ones a read
\* commits and the conflicted ones.
StateCellOrders(p) ==
  Perms({ c \in Cells : value(p[c]) # p[c] \/ Conflicted(p[c]) })

\* _solve, lines 32-36: every group queued at priority 0.
InitialQueue == [g \in GroupIds |-> 0]

\* _should_loop()
_should_loop ==
  current_puzzle_state = "Unsolved" /\ DOMAIN group_priority_queue # {}

\* heapdict.popitem(): a group of lowest priority.
popitem_choices(q) == { g \in DOMAIN q : \A h \in DOMAIN q : q[g] <= q[h] }

\* The queue after group g was popped, the groups of the changed cells not
\* put back (a variant used to test C14).
update_priorities_drop(q, g, changed) == [h \in DOMAIN q \ {g} |-> q[h]]

\* _solve, lines 55-64: the queue after group g was popped and the groups of
\* the changed cells were re-prioritised.
update_priorities(q, g, changed) ==
  LET times_changed(h) == Cardinality(changed \cap Groups[h])
      groups_changed == { h \in GroupIds : times_changed(h) > 0 }
      rest == DOMAIN q \ {g}
  IN [h \in rest \cup groups_changed |->
        (IF h \in rest THEN q[h] ELSE 0) - times_changed(h)]

Init ==
  /\ \E p \in InputPuzzles :
       /\ heap = << p >>
       /\ snapshot = p
  /\ iter_groups = << >>
  /\ puzzle = 1
  /\ _puzzle = 0
  /\ __puzzle = 0
  /\ group_priority_queue = << >>
  /\ current_puzzle_state = "None"
  /\ cell_with_a_guess = 0
  /\ guess = 0
  /\ pc = "solve"
  /\ strategy = "None"
  /\ strategy_group = 0
  /\ applications = 0
  /\ before = << >>
  /\ changed_cells = << >>

\* solve, lines 71-72 up to _solve's loop: copy the argument, queue every
\* group, compute the state. The call has its own locals; the heap keeps the
\* outermost argument and this call's argument, and the objects that only
\* the calling frames refer to are dropped. gs is the order in which the
\* copy's groups iterate (a Group hashes by id).
Solve ==
  /\ pc = "solve"
  /\ \E gs \in GroupOrders :
     \E live \in { IF puzzle = 1 THEN << heap[1] >> ELSE << heap[1], heap[puzzle] >> } :
     \E d \in { deepcopy(live, Len(live)) } :
     \E cs \in StateCellOrders(d.heap[d.ref]) :
     \E s \in { state(d.heap[d.ref], gs, cs) } :
       /\ heap' = [d.heap EXCEPT ![d.ref] = s.p]
       /\ puzzle' = Len(live)
       /\ _puzzle' = d.ref
       /\ iter_groups' = gs
       /\ current_puzzle_state' = s.state
  /\ __puzzle' = 0
  /\ cell_with_a_guess' = 0
  /\ guess' = 0
  /\ group_priority_queue' = InitialQueue
  /\ pc' = "first_solve"
  /\ UNCHANGED << snapshot, strategy_vars >>

\* _solve, lines 47-67: one iteration of the propagation loop.
Propagate ==
  /\ pc \in {"first_solve", "second_solve"}
  /\ _should_loop
  /\ \E g \in popitem_choices(group_priority_queue) :
     \E o \in ValueOrders :
     \E r \in { process_cell_group(heap[_puzzle], Groups[g],
                                   CellOrder(g, o), o, iter_groups) } :
     \E cs \in StateCellOrders(r.p) :
     \E s \in { state(r.p, iter_groups, cs) } :
       /\ heap' = [heap EXCEPT ![_puzzle] = s.p]
       /\ current_puzzle_state' = s.state
       /\ group_priority_queue' =
            update_priorities(group_priority_queue, g, r.changed)
  /\ UNCHANGED << puzzle, _puzzle, __puzzle, cell_with_a_guess, guess,
                  iter_groups, pc, snapshot, strategy_vars >>

\* solve, lines 74-75: the first _solve ended Solved or Conflict.
Return ==
  /\ pc = "first_solve"
  /\ ~ _should_loop
  /\ current_puzzle_state # "Unsolved"
  /\ pc' = "returned"
  /\ UNCHANGED << heap, puzzle, _puzzle, __puzzle, group_priority_queue,
                  current_puzzle_state, cell_with_a_guess, guess, iter_groups,
                  snapshot, strategy_vars >>

\* solve, lines 82-91 up to the second _solve's loop: save a copy, guess a
\* value of an unsolved cell, queue every group, compute the state.
Guess ==
  /\ pc = "first_solve"
  /\ ~ _should_loop
  /\ current_puzzle_state = "Unsolved"
  /\ \E d \in { deepcopy(heap, _puzzle) } :
     \E p0 \in { ReadValues(d.heap[_puzzle], Cells) } :
     \E cell \in puzzle_unsolved_cells(p0) :
     \E v \in p0[cell].potential_values :
     \E p1 \in { [p0 EXCEPT ![cell] = set_value(@, v)] } :
     \E cs \in StateCellOrders(p1) :
     \E s \in { state(p1, iter_groups, cs) } :
       /\ heap' = [d.heap EXCEPT ![_puzzle] = s.p]
       /\ __puzzle' = d.ref
       /\ cell_with_a_guess' = cell
       /\ guess' = v
       /\ current_puzzle_state' = s.state
  /\ group_priority_queue' = InitialQueue
  /\ pc' = "second_solve"
  /\ UNCHANGED << puzzle, _puzzle, iter_groups, snapshot, strategy_vars >>

\* solve, lines 101-104: the saved copy's unsolved cells that compare equal
\* (Cell.__eq__) to the guessed cell as it is now.
rollback_cells(saved, guessed, loc) ==
  { c \in puzzle_unsolved_cells(saved) : CellEq(c, value(saved[c]), loc, guessed[loc]) }

\* Recurse with the assertion of line 106 compiled away (a variant used to
\* test C6).
Recurse_unasserted ==
  /\ pc = "second_solve"
  /\ ~ _should_loop
  /\ IF current_puzzle_state = "Conflict"
     THEN \E saved \in { ReadValues(heap[__puzzle], Cells) } :
          \E found \in { rollback_cells(heap[__puzzle], heap[_puzzle],
                                        cell_with_a_guess) } :
            /\ heap' = [heap EXCEPT ![__puzzle] = RemoveFrom(saved, found, {guess})]
            /\ _puzzle' = __puzzle
            /\ puzzle' = __puzzle
            /\ pc' = "solve"
     ELSE /\ puzzle' = _puzzle
          /\ pc' = "solve"
          /\ UNCHANGED << heap, _puzzle >>
  /\ __puzzle' = 0
  /\ UNCHANGED << group_priority_queue, current_puzzle_state,
                  cell_with_a_guess, guess, iter_groups, snapshot, strategy_vars >>

\* solve, lines 93-108: after the second _solve, roll the guess back on a
\* Conflict (or fail the assertion), then call solve on _puzzle.
Recurse ==
  /\ pc = "second_solve"
  /\ ~ _should_loop
  /\ IF current_puzzle_state = "Conflict"
     THEN \E saved \in { ReadValues(heap[__puzzle], Cells) } :
          \E found \in { rollback_cells(heap[__puzzle], heap[_puzzle],
                                        cell_with_a_guess) } :
            /\ heap' = [heap EXCEPT ![__puzzle] = RemoveFrom(saved, found, {guess})]
            /\ _puzzle' = __puzzle
            /\ puzzle' = IF found # {} THEN __puzzle ELSE puzzle
            /\ pc' = IF found # {} THEN "solve" ELSE "raised"
     ELSE /\ puzzle' = _puzzle
          /\ pc' = "solve"
          /\ UNCHANGED << heap, _puzzle >>
  /\ __puzzle' = 0
  /\ UNCHANGED << group_priority_queue, current_puzzle_state,
                  cell_with_a_guess, guess, iter_groups, snapshot, strategy_vars >>

Next == Solve \/ Propagate \/ Return \/ Guess \/ Recurse

Spec == Init /\ [][Next]_vars

---------------------------------------------------------------------------
(* One strategy applied to one group of a puzzle, and then once more *)

\* The sets whose iteration order a strategy's outcome can depend on, as the
\* strategy computes them on entry.
\* last_remaining_cell, lines 156-174: for each cell of the group, the values
\* the call commits to it with set_value (the values outside solved_values
\* whose only host in pencil_marking_map is the cell; the map is built once,
\* so the order of the items does not matter).
lrc_set_values(p, g) ==
  LET p1 == ReadValues(p, g)
      solved_values == { p1[c].value : c \in solved_cells(p1, g) }
      pencil_marking_map == potential_value_map(p1, g)
  IN [c \in g |-> { v \in Keys(pencil_marking_map) \ solved_values :
                      pencil_marking_map[v] = {c} }]

lrc_keys(p, g) == Keys(potential_value_map(ReadValues(p, g), g))

cc_cells(p, g) ==
  LET p1 == ReadValues(p, g)
  IN { c \in unsolved_cells(p1, g) :
         Cardinality(p1[c].potential_values) <= Cardinality(g) \div 2 }

chc_values(p, g) ==
  LET m == potential_value_map(ReadValues(p, g), g)
  IN { v \in Keys(m) : Cardinality(m[v]) <= Cardinality(g) \div 2 }

StrategyInit ==
  /\ \E p \in StrategyPuzzles :
       /\ heap = << p >>
       /\ snapshot = p
  /\ puzzle = 1
  /\ _puzzle = 0
  /\ __puzzle = 0
  /\ group_priority_queue = << >>
  /\ current_puzzle_state = "None"
  /\ cell_with_a_guess = 0
  /\ guess = 0
  /\ iter_groups = << >>
  /\ pc = "strategy"
  /\ strategy = "None"
  /\ strategy_group = 0
  /\ applications = 0
  /\ before = << >>
  /\ changed_cells = << >>

\* Strategy `name` may be applied to group g now: as a first application,
\* or as the second application of the same strategy to the same group.
MayApply(name, g) ==
  /\ pc = "strategy"
  /\ \/ applications = 0
     \/ applications = 1 /\ strategy = name /\ strategy_group = g

\* The call returned outcome r.
Applied(name, g, r) ==
  /\ heap' = << r.p >>
  /\ before' = heap[1]
  /\ changed_cells' = Append(changed_cells, r.changed)
  /\ strategy' = name
  /\ strategy_group' = g
  /\ applications' = applications + 1
  /\ UNCHANGED << puzzle, _puzzle, __puzzle, group_priority_queue,
                  current_puzzle_state, cell_with_a_guess, guess, iter_groups,
                  pc, snapshot >>

ApplyClearSolvedCells ==
  \E g \in GroupIds :
    /\ MayApply("clear_solved_cells", g)
    /\ Applied("clear_solved_cells", g, clear_solved_cells(heap[1], Groups[g]))

ApplyLastRemainingCell ==
  \E g \in GroupIds :
    /\ MayApply("last_remaining_cell", g)
    /\ \E vo \in Perms(lrc_keys(heap[1], Groups[g])) :
         Applied("last_remaining_cell", g,
                 last_remaining_cell(heap[1], Groups[g], vo))

ApplyCheckConjugates ==
  \E g \in GroupIds :
    /\ MayApply("check_conjugates", g)
    /\ \E co \in Perms(cc_cells(heap[1], Groups[g])) :
         Applied("check_conjugates", g, check_conjugates(heap[1], Groups[g], co))

ApplyCheckHiddenConjugates ==
  \E g \in GroupIds :
    /\ MayApply("check_hidden_conjugates", g)
    /\ \E vo \in Perms(chc_values(heap[1], Groups[g])) :
         Applied("check_hidden_conjugates", g,
                 check_hidden_conjugates(heap[1], Groups[g], vo))

ApplyCheckIntersections ==
  \E g \in GroupIds :
    /\ MayApply("check_intersections", g)
    /\ \E vo \in Perms(lrc_keys(heap[1], Groups[g])), go \in GroupOrders :
         Applied("check_intersections", g,
                 check_intersections(heap[1], Groups[g], vo, go))

StrategyNext ==
  \/ ApplyClearSolvedCells
  \/ ApplyLastRemainingCell
  \/ ApplyCheckConjugates
  \/ ApplyCheckHiddenConjugates
  \/ ApplyCheckIntersections

StrategySpec == StrategyInit /\ [][StrategyNext]_vars

\* The propagation loop runs another iteration.
InLoop == pc \in {"first_solve", "second_solve"} /\ _should_loop

\* Weak fairness of Propagate, written without ENABLED: Propagate is enabled
\* exactly when InLoop holds (process_cell_group and state are total, and the
\* popped group leaves the queue), and by Next a step that keeps pc inside a
\* _solve loop is a Propagate step.
FairPropagate ==
  \/ []<>(~ InLoop)
  \/ []<><< pc \in {"first_solve", "second_solve"} /\ pc' = pc >>_vars

\* The scheduling of solve: a Python call runs each of its statements to the
\* next; nothing suspends it before it returns or raises.
FairSpec ==
  /\ Spec
  /\ WF_vars(Solve)
  /\ FairPropagate
  /\ WF_vars(Return)
  /\ WF_vars(Guess)
  /\ WF_vars(Recurse)

---------------------------------------------------------------------------
(* Valid completions *)

\* The full assignments in which no group repeats a symbol.
ValidGrids ==
  { t \in [Cells -> Alphabet] :
      \A g \in GroupIds : \A c, d \in Groups[g] : c # d => t[c] # t[d] }

\* Symbol v agrees with the cell: its committed value, else one of its
\* potential values.
Consistent(cell, v) ==
  IF Truthy(cell.value) THEN cell.value = v ELSE v \in cell.potential_values

\* The valid completions of the cells p.
Completions(p) == { t \in ValidGrids : \A c \in Cells : Consistent(p[c], t[c]) }

\* Every cell of q is committed, and q is a valid completion of p.
IsCompletionOf(q, p) ==
  /\ \A c \in Cells : Truthy(q[c].value)
  /\ [c \in Cells |-> q[c].value] \in Completions(p)

\* solve has ended, by a return or by an uncaught AssertionError.
Ended == pc \in {"returned", "raised"}

\* The number of potential values over all cells of p.
RECURSIVE CandidatesIn(_, _)
CandidatesIn(p, S) ==
  IF S = {} THEN 0
  ELSE LET c == CHOOSE x \in S : TRUE
       IN Cardinality(p[c].potential_values) + CandidatesIn(p, S \ {c})

TotalCandidates(p) == CandidatesIn(p, Cells)

---------------------------------------------------------------------------
(* Claims about solve *)

\* C1: for every puzzle with a valid completion, solve returns Solved with a
\* valid completion of it, whatever the guess picks. (Stated as the claim
\* reads; the code violates it.)
C1_SolvableIsSolved ==
  (Ended /\ Completions(snapshot) # {}) =>
    /\ pc = "returned"
    /\ current_puzzle_state = "Solved"
    /\ IsCompletionOf(heap[_puzzle], snapshot)

\* C2: whenever solve returns Solved, the returned puzzle is a valid
\* completion of the argument: all cells committed, no group repeats a value,
\* committed cells kept, other cells hold one of their candidates.
C2_SolvedIsCompletion ==
  (pc = "returned" /\ current_puzzle_state = "Solved") =>
    IsCompletionOf(heap[_puzzle], snapshot)

\* A Solved return reached through a guess and a recursive call.
C2_Witness ==
  /\ pc = "returned"
  /\ current_puzzle_state = "Solved"
  /\ puzzle # 1
  /\ IsCompletionOf(heap[_puzzle], snapshot)

\* C3: for every puzzle without a valid completion, solve returns Conflict.
\* (Stated as the claim reads; the code violates it.)
C3_UnsolvableIsConflict ==
  (Ended /\ Completions(snapshot) = {}) =>
    (pc = "returned" /\ current_puzzle_state = "Conflict")

\* C4: solve never changes its argument: at every point the outermost
\* argument's cells equal their snapshot from before the call.
C4_ArgumentUnchanged == heap[1] = snapshot

\* solve returned after guessing, its working copy differing from the
\* untouched argument.
C4_Witness ==
  /\ pc = "returned"
  /\ puzzle # 1
  /\ heap[_puzzle] # snapshot
  /\ heap[1] = snapshot

\* C5: every call of solve ends by returning; nothing raises or fails an
\* assertion. (Stated as the claim reads; the code violates it.)
C5_NeverRaises == pc # "raised"

\* One iteration of the propagation loop.
PropagateStep ==
  /\ pc \in {"first_solve", "second_solve"}
  /\ pc' = pc
  /\ _puzzle' = _puzzle

\* C6: solve terminates: each iteration of the propagation loop reduces the
\* total number of candidates or shrinks the scheduler, each recursive call
\* starts from a puzzle with fewer candidates than the call before, and
\* every call ends.
C6_Terminates ==
  /\ [][PropagateStep =>
          \/ TotalCandidates(heap'[_puzzle]) < TotalCandidates(heap[_puzzle])
          \/ Cardinality(DOMAIN group_priority_queue')
               < Cardinality(DOMAIN group_priority_queue)]_vars
  /\ [][(pc = "second_solve" /\ pc' = "solve") =>
          TotalCandidates(heap'[puzzle']) < TotalCandidates(heap[puzzle])]_vars
  /\ <>Ended

\* solve ended after a recursive call.
C6_Witness == Ended /\ puzzle # 1

\* C7: candidate sets never grow: every puzzle object's candidate sets are
\* subsets of those of the argument, and within one propagation run a
\* removed candidate never reappears.
C7_CandidatesNeverGrow ==
  /\ [](\A i \in DOMAIN heap : \A c \in Cells :
          heap[i][c].potential_values \subseteq snapshot[c].potential_values)
  /\ [][PropagateStep =>
          \A c \in Cells :
            heap'[_puzzle][c].potential_values
              \subseteq heap[_puzzle][c].potential_values]_vars

\* Propagation after a guess removed candidates from the working copy.
C7_Witness ==
  /\ pc = "second_solve"
  /\ \E c \in Cells :
       /\ ~ Truthy(heap[_puzzle][c].value)
       /\ heap[_puzzle][c].potential_values # {}
       /\ heap[_puzzle][c].potential_values # heap[__puzzle][c].potential_values

---------------------------------------------------------------------------
(* Claims about the strategies *)

\* The group of the last application.
AppliedGroup == Groups[strategy_group]

\* The value a cell holds as solved: its committed value, else its only
\* potential value, else None.
SolvedValue(cell) ==
  IF Truthy(cell.value) THEN cell.value
  ELSE IF Cardinality(cell.potential_values) = 1
       THEN CHOOSE x \in cell.potential_values : TRUE
       ELSE None

\* C8: each of the five strategies is sound on any group in any puzzle
\* state: every valid completion consistent with the cells before the call
\* is consistent with them after it, for every iteration order. (Stated as
\* the claim reads; the code violates it.)
C8_StrategiesSound ==
  applications >= 1 => Completions(before) \subseteq Completions(heap[1])

\* C9 as the claim reads: after clear_solved_cells has run, no unsolved cell
\* lists a symbol that is the value of a solved cell in a group containing
\* it, cells that became solved during the run included.
C9_NoSolvedValueListed ==
  (applications >= 1 /\ strategy = "clear_solved_cells") =>
    \A g \in GroupIds : \A c, d \in Groups[g] :
      (SolvedValue(heap[1][c]) = None /\ SolvedValue(heap[1][d]) # None) =>
        SolvedValue(heap[1][d]) \notin heap[1][c].potential_values

\* C9, amended: after clear_solved_cells(group) no cell of the group lists a
\* symbol that a cell of the group held as solved (committed, or as its only
\* candidate) when the call started, and the cells outside the group are as
\* they were.
C9_StartSolvedValuesCleared ==
  (applications >= 1 /\ strategy = "clear_solved_cells") =>
    /\ \A c, d \in AppliedGroup :
         SolvedValue(before[d]) # None =>
           SolvedValue(before[d]) \notin heap[1][c].potential_values
    /\ \A c \in Cells \ AppliedGroup : heap[1][c] = before[c]

\* clear_solved_cells started with a cell holding an uncommitted single
\* candidate that another cell of the group listed, and removed it there.
C9_Witness ==
  /\ applications >= 1
  /\ strategy = "clear_solved_cells"
  /\ \E c, d \in AppliedGroup :
       /\ c # d
       /\ ~ Truthy(before[d].value)
       /\ Cardinality(before[d].potential_values) = 1
       /\ before[d].potential_values \subseteq before[c].potential_values
       /\ before[d].potential_values \cap heap[1][c].potential_values = {}

\* C10 as the claim reads: a second application of the same strategy to the
\* same group returns an empty changed-cell set and leaves every cell
\* unchanged.
C10_Idempotent ==
  applications = 2 => (changed_cells[2] = {} /\ heap[1] = before)

\* C10, amended: when an application returned an empty changed-cell set,
\* the next application of the same strategy to the same group returns an
\* empty changed-cell set and leaves every cell unchanged.
C10_StableAfterNoChange ==
  (applications = 2 /\ changed_cells[1] = {}) =>
    (changed_cells[2] = {} /\ heap[1] = before)

\* Two applications without a change on a group that still has at least two
\* unsolved cells.
C10_Witness ==
  /\ applications = 2
  /\ changed_cells[1] = {}
  /\ changed_cells[2] = {}
  /\ heap[1] = before
  /\ Cardinality({ c \in AppliedGroup : SolvedValue(heap[1][c]) = None }) >= 2

---------------------------------------------------------------------------
(* Claims about guessing, rollback and commits *)

\* C11: when propagation after a guess g on cell c ends in Conflict, the
\* driver continues solving from the pre-guess copy with g removed from the
\* candidates of the cell at c's location and every other cell as it was.
\* (Stated as the claim reads; the code violates it.)
C11_ConflictBacktracks ==
  [][(pc = "second_solve" /\ ~ _should_loop /\ current_puzzle_state = "Conflict") =>
       /\ pc' = "solve"
       /\ heap'[puzzle'] =
            [heap[__puzzle] EXCEPT ![cell_with_a_guess].potential_values = @ \ {guess}]]_vars

\* The cells of p that hold no committed value.
Uncommitted(p) == { c \in Cells : ~ Truthy(p[c].value) }

\* C12: when propagation stalls in state Unsolved, the cell chosen for the
\* guess is an unsolved cell whose candidate count is minimal among the
\* unsolved cells, and the guessed symbol is one of its candidates
\* (heap[__puzzle] is the copy saved just before the guess). (Stated as the
\* claim reads; the code violates it: solve takes the first cell of the set
\* of unsolved cells, whatever its candidate count.)
C12_GuessMinimal ==
  pc = "second_solve" =>
    /\ cell_with_a_guess \in Uncommitted(heap[__puzzle])
    /\ guess \in heap[__puzzle][cell_with_a_guess].potential_values
    /\ \A d \in Uncommitted(heap[__puzzle]) :
         Cardinality(heap[__puzzle][cell_with_a_guess].potential_values)
           <= Cardinality(heap[__puzzle][d].potential_values)

\* C13: a committed value is never replaced by a different one: every value
\* that a call of last_remaining_cell commits to a cell is the value the
\* cell holds after the call. (Stated as the claim reads; the code violates
\* it.)
C13_NoOverwrite ==
  (applications >= 1 /\ strategy = "last_remaining_cell") =>
    \A c \in AppliedGroup :
      \A v \in lrc_set_values(before, AppliedGroup)[c] : heap[1][c].value = v

---------------------------------------------------------------------------
(* Claims about the scheduler *)

\* The outcomes process_cell_group can have on group g of the cells p, over
\* the iteration orders.
ChainOutcomes(p, g) ==
  { process_cell_group(p, Groups[g], CellOrder(g, o), o, iter_groups) :
      o \in ValueOrders }

\* The strategy chain would still change a cell when applied to group g.
WouldChange(p, g) == \E r \in ChainOutcomes(p, g) : r.changed # {}

\* No group has work left: the chain returns no changed cell, and leaves
\* the cells as they are, on every group.
Fixpoint(p) ==
  \A g \in GroupIds : \A r \in ChainOutcomes(p, g) : r.changed = {} /\ r.p = p

\* C14: the scheduler never loses pending work: in the propagation loop
\* every group on which process_cell_group would still change a cell is in
\* the queue; when the loop ends Unsolved with an empty queue the chain
\* changes nothing on any group; and a guess is made only on such a puzzle
\* (heap[__puzzle] is the copy saved just before the guess; it is looked at
\* right after the guess, when every group is queued again, and stays as it
\* is until the second _solve ends).
C14_NoLostWork ==
  /\ pc \in {"first_solve", "second_solve"} =>
       \A g \in GroupIds \ DOMAIN group_priority_queue :
         ~ WouldChange(heap[_puzzle], g)
  /\ (pc \in {"first_solve", "second_solve"}
        /\ current_puzzle_state = "Unsolved"
        /\ DOMAIN group_priority_queue = {}) => Fixpoint(heap[_puzzle])
  /\ (pc = "second_solve" /\ group_priority_queue = InitialQueue) =>
       Fixpoint(heap[__puzzle])

\* The loop ended Unsolved with an empty queue after propagation had
\* changed the working copy.
C14_Witness ==
  /\ pc = "first_solve"
  /\ current_puzzle_state = "Unsolved"
  /\ DOMAIN group_priority_queue = {}
  /\ \E c \in Cells :
       heap[_puzzle][c].potential_values # heap[puzzle][c].potential_values
  /\ Fixpoint(heap[_puzzle])

============================================================================
